---- MODULE Spec2Model ----
(***************************************************************************)
(* A model of RecursiveModelIndex<KeyType, ValueType, secondStageSize>     *)
(* (src/src/RecursiveModelIndex.h): the overflow array, the sorted data,   *)
(* the retrain sequence of train() and the routing of trainSecondStage().  *)
(* The regression networks (nn::Net) are an external capability: a         *)
(* network is modelled by what the index reads from it (its outputs on the *)
(* keys it is asked about) and by what the index decides about it (its     *)
(* batch dimension, whether it was re-created, whether it was trained).     *)
(***************************************************************************)
EXTENDS Integers, Sequences, FiniteSets, TLC

\* ------------------------------------------------------------------ bounds
MaxInserts == 3
\* The number of inserts where whole behaviours are checked (FairSpec).
MaxFairInserts == 2

\* Keys and values the callers pass to insert and find.
Keys == {0, 1}
Vals == {0, 1}
\* Overflow thresholds, bank sizes and Stage-2 batch sizes of the
\* well-configured indexes the model constructs.
OverflowSizes == {1, 2}
StageSizes == {1, 2}
BatchSizes == {1, 2}
\* Configurations the constructor accepts as well (it validates nothing).
AnyStageSizes == {0, 1}
AnyBatchSizes == {-1, 0, 1}
\* m_currentOverflowSize is not initialised by the constructor: the values
\* the indeterminate int is sampled from.
IndeterminateInts == {-1, 0, 1}

\* ------------------------------------------------------- program constants
\* std::pair<KeyType, ValueType>{} value-initialises both members.
DefaultKey == 0
DefaultValue == 0
\* The range of int, the target of static_cast<int>.
IntMax == 2147483647
IntMin == -IntMax - 1

\* Outputs of the Stage-1 network, in halves (-4 is -2.0, 3 is 1.5), and
\* NotANumber, which stands for a float that int cannot represent (NaN, an
\* infinity, a value outside the range of int).
NotANumber == IntMax
\* AboveInt stands for a finite float above the range of int (3e9, say).
AboveInt == IntMax - 1
NetOutputs == {-4, 1, 3, NotANumber}

Min(a, b) == IF a < b THEN a ELSE b
Max(a, b) == IF a > b THEN a ELSE b

VARIABLES
    m_data,                 \* the sorted data, a sequence of records
    m_overflowArray,        \* records inserted since the last train
    m_currentOverflowSize,  \* the overflow counter
    m_maxOverflowSize,      \* the overflow threshold
    secondStageSize,        \* the template parameter: size of the bank
    m_firstStageParams,     \* [batchSize]
    m_secondStageParams,    \* [batchSize]
    m_firstStageNetwork,    \* [batch, trained, carried]
    m_secondStageNetworks,  \* stage -> [batch, trained, carried]
    phase,                  \* the position inside train(), "Idle" outside
    stageOf,                \* trainSecondStage's `stage` for each record routed
    lastFind,               \* the find call that has just returned: [called, key, result]
    inserted,               \* history: key -> number of insert calls with it
    explicitTrain,          \* history: the caller has called train()
    retrained,              \* history: train() has been entered
    routing                 \* the routing formula applied on its own:
                            \* [prediction, size, stage, done]

vars == <<m_data, m_overflowArray, m_currentOverflowSize, m_maxOverflowSize,
          secondStageSize, m_firstStageParams, m_secondStageParams,
          m_firstStageNetwork, m_secondStageNetworks, phase, stageOf,
          lastFind, inserted, explicitTrain, retrained, routing>>

config == <<m_maxOverflowSize, secondStageSize, m_firstStageParams, m_secondStageParams>>
history == <<inserted, explicitTrain, retrained>>

Pair(k, v) == [key |-> k, val |-> v]

RECURSIVE SumOver(_, _)
SumOver(f, S) == IF S = {} THEN 0
                 ELSE LET x == CHOOSE y \in S : TRUE IN f[x] + SumOver(f, S \ {x})

NumInserts == SumOver(inserted, Keys)

\* The number of records of sequence s with key k.
CountKey(s, k) == Cardinality({i \in 1..Len(s) : s[i].key = k})

KeysOf(s) == {s[i].key : i \in 1..Len(s)}

\* ------------------------------------------------------------ constructor
\* A freshly created network: nn::Net with Dense layers of the given batch
\* size, not trained yet. `trained`: it has been trained since it was
\* created; `carried`: it had been trained already when the train() call
\* that trained it last began.
NewNet(batchSize) == [batch |-> batchSize, trained |-> FALSE, carried |-> FALSE]

\* The network after registerOptimizer and the epochs of one train() call.
Trained(net) == [batch |-> net.batch, trained |-> TRUE, carried |-> net.trained]

\* No find call has just returned.
NoFind == [called |-> FALSE, key |-> DefaultKey, result |-> Pair(DefaultKey, DefaultValue)]

Constructed(stageSizes, firstBatches, secondBatches) ==
    /\ m_data = <<>>
    /\ m_overflowArray = <<>>
    /\ m_currentOverflowSize \in IndeterminateInts
    /\ m_maxOverflowSize \in OverflowSizes
    /\ secondStageSize \in stageSizes
    /\ m_firstStageParams \in [batchSize : firstBatches]
    /\ m_secondStageParams \in [batchSize : secondBatches]
    /\ m_firstStageNetwork = NewNet(m_firstStageParams.batchSize)
    /\ m_secondStageNetworks =
           [ii \in 0..(secondStageSize - 1) |-> NewNet(m_secondStageParams.batchSize)]
    /\ phase = "Idle"
    /\ stageOf = <<>>
    /\ lastFind = NoFind
    /\ inserted = [k \in Keys |-> 0]
    /\ explicitTrain = FALSE
    /\ retrained = FALSE

\* The routing formula has not been applied on its own.
NoRouting == [prediction |-> 0, size |-> 1, stage |-> 0, done |-> FALSE]

Init == Constructed(StageSizes, {1}, BatchSizes) /\ routing = NoRouting

\* ------------------------------------------------------------------ insert
\* train() with trainSecondStage's routing loop run before trainFirstStage.
PhaseAfterRoutingFirst(p) ==
    CASE p = "Idle" -> "Merging"
      [] p = "Merging" -> "Routing"
      [] p = "Routing" -> "TrainingStage1"
      [] p = "TrainingStage1" -> "TrainingStage2"
      [] p = "TrainingStage2" -> "Idle"
      [] OTHER -> "Fault"

\* train() calling itself again when it is done.
PhaseAfterTrainsAgain(p) ==
    CASE p = "Idle" -> "Merging"
      [] p = "Merging" -> "TrainingStage1"
      [] p = "TrainingStage1" -> "Routing"
      [] p = "Routing" -> "TrainingStage2"
      [] p = "TrainingStage2" -> "Merging"
      [] OTHER -> "Fault"

\* The order of the steps of train(): the phase that follows phase p.
PhaseAfter(p) ==
    CASE p = "Idle" -> "Merging"
      [] p = "Merging" -> "TrainingStage1"
      [] p = "TrainingStage1" -> "Routing"
      [] p = "Routing" -> "TrainingStage2"
      [] p = "TrainingStage2" -> "Idle"
      [] OTHER -> "Fault"

insert(key, value) ==
    /\ phase = "Idle"
    /\ NumInserts < MaxInserts
    /\ m_overflowArray' = Append(m_overflowArray, Pair(key, value))
    /\ m_currentOverflowSize' = m_currentOverflowSize + 1
    /\ inserted' = [inserted EXCEPT ![key] = @ + 1]
    /\ IF m_currentOverflowSize' > m_maxOverflowSize
       THEN /\ phase' = PhaseAfter(phase)
            /\ retrained' = TRUE
       ELSE UNCHANGED <<phase, retrained>>
    /\ lastFind' = NoFind
    /\ UNCHANGED <<m_data, config, m_firstStageNetwork, m_secondStageNetworks,
                   stageOf, explicitTrain, routing>>

\* -------------------------------------------------------------------- find
\* The search returning the last record with the key instead of the first.
FindIfLast(array, key) ==
    IF \E i \in 1..Len(array) : array[i].key = key
    THEN CHOOSE i \in 1..Len(array) :
             /\ array[i].key = key
             /\ \A j \in (i + 1)..Len(array) : array[j].key # key
    ELSE 0

\* std::find_if over the overflow array: the index of the first record with
\* the key, 0 for end().
FindIf(array, key) ==
    IF \E i \in 1..Len(array) : array[i].key = key
    THEN CHOOSE i \in 1..Len(array) :
             /\ array[i].key = key
             /\ \A j \in 1..(i - 1) : array[j].key # key
    ELSE 0

\* What find returns: the record found in the overflow array, else `{}`.
FindResult(key) ==
    LET result == FindIf(m_overflowArray, key)
    IN  IF result # 0 THEN m_overflowArray[result] ELSE Pair(DefaultKey, DefaultValue)

\* A find that takes the record it returns out of the overflow array.
findTaking(key) ==
    /\ phase = "Idle"
    /\ lastFind' = [called |-> TRUE, key |-> key, result |-> FindResult(key)]
    /\ m_overflowArray' =
           LET result == FindIf(m_overflowArray, key)
           IN  [i \in 1..(Len(m_overflowArray) - (IF result # 0 THEN 1 ELSE 0)) |->
                   IF result = 0 \/ i < result THEN m_overflowArray[i] ELSE m_overflowArray[i + 1]]
    /\ UNCHANGED <<m_data, m_currentOverflowSize, config,
                   m_firstStageNetwork, m_secondStageNetworks, phase, stageOf, history, routing>>

find(key) ==
    /\ phase = "Idle"
    /\ lastFind' = [called |-> TRUE, key |-> key, result |-> FindResult(key)]
    /\ UNCHANGED <<m_data, m_overflowArray, m_currentOverflowSize, config,
                   m_firstStageNetwork, m_secondStageNetworks, phase, stageOf, history, routing>>

\* ------------------------------------------------------------------- train
\* The caller calls train().
train ==
    /\ phase = "Idle"
    /\ phase' = PhaseAfter(phase)
    /\ explicitTrain' = TRUE
    /\ retrained' = TRUE
    /\ lastFind' = NoFind
    /\ UNCHANGED <<m_data, m_overflowArray, m_currentOverflowSize, config,
                   m_firstStageNetwork, m_secondStageNetworks, stageOf, inserted, routing>>

\* m_data assigned from the overflow array instead of appended to.
InsertAtEndAssigns(data, overflow) == overflow

\* m_data.insert(m_data.end(), overflow.begin(), overflow.end())
InsertAtEnd(data, overflow) == data \o overflow

\* The comparator with its operands the other way round.
KeyGreater(p1, p2) == p1.key > p2.key

\* The comparator given to std::sort.
KeyLess(p1, p2) == p1.key < p2.key

\* std::sort with the comparator: some permutation of s ordered by KeyLess;
\* the order of elements that are equivalent under it is unspecified.
StdSort(s) ==
    LET n == Len(s)
        ordered == {q \in Permutations(1..n) :
                       \A i, j \in 1..n : i < j => ~KeyLess(s[q[j]], s[q[i]])}
    IN  {[i \in 1..n |-> s[q[i]]] : q \in ordered}

trainMerge ==
    /\ phase = "Merging"
    /\ m_data' \in StdSort(InsertAtEnd(m_data, m_overflowArray))
    /\ phase' = PhaseAfter(phase)
    /\ UNCHANGED <<m_overflowArray, m_currentOverflowSize, config,
                   m_firstStageNetwork, m_secondStageNetworks, stageOf, lastFind, history, routing>>

\* The network is kept and trained further.
trainFirstStage ==
    /\ phase = "TrainingStage1"
    /\ m_firstStageNetwork' = Trained(m_firstStageNetwork)
    /\ phase' = PhaseAfter(phase)
    /\ UNCHANGED <<m_data, m_overflowArray, m_currentOverflowSize, config,
                   m_secondStageNetworks, stageOf, lastFind, history, routing>>

\* result = forward(key) * m_data.size(), in halves, of record ii (from 1);
\* forward maps each key to the output of the Stage-1 network for it.
Prediction(forward, ii) ==
    LET out == forward[m_data[ii].key]
    IN  IF out = NotANumber THEN NotANumber ELSE out * Len(m_data)

\* int / int for a positive divisor, and the integral part of a float:
\* truncation toward zero.
IntDiv(a, b) == IF a >= 0 \/ a % b = 0 THEN a \div b ELSE (a \div b) + 1

\* static_cast<int>(float): truncation toward zero; undefined when the value
\* is outside int, where any int may come out.
StaticCastInt(halves) ==
    IF halves \notin {NotANumber, AboveInt}
    THEN {IntDiv(halves, 2)}
    ELSE {IntMin, 0, IntMax}

\* The cap without its lower end.
CapStageAbove(stage, size) == Min(size - 1, stage)

\* stage = max(0, stage); stage = min(secondStageSize - 1, stage)
CapStage(stage, size) == Min(size - 1, Max(0, stage))

\* Lines 213-216: the stages a prediction (in halves) may be sent to in a
\* bank of the given size.
StageOfPrediction(halves, size) ==
    {CapStage(IntDiv(c, size), size) : c \in StaticCastInt(halves)}

\* The stages record ii may be sent to.
StagesFor(forward, ii) == StageOfPrediction(Prediction(forward, ii), secondStageSize)

\* The sequences of stages the routing loop may compute for the records.
Routings(forward) ==
    LET n == Len(m_data)
    IN  {so \in [1..n -> UNION {StagesFor(forward, ii) : ii \in 1..n}] :
            \A ii \in 1..n : so[ii] \in StagesFor(forward, ii)}

\* The first loop of trainSecondStage; what the trained Stage-1 network
\* answers for a key is not known to the index. With secondStageSize = 0 the division
\* is a division by zero and perStageDataset has no element to push to.
trainRoute ==
    /\ phase = "Routing"
    /\ IF secondStageSize = 0 /\ m_data # <<>>
       THEN /\ phase' = "Fault"
            /\ UNCHANGED stageOf
       ELSE /\ \E forward \in [KeysOf(m_data) -> NetOutputs] : stageOf' \in Routings(forward)
            /\ phase' = PhaseAfter(phase)
    /\ UNCHANGED <<m_data, m_overflowArray, m_currentOverflowSize, config,
                   m_firstStageNetwork, m_secondStageNetworks, lastFind, history, routing>>

\* perStageDataset[stage]: the pairs {key, ii} (ii from 0) pushed in order.
RECURSIVE Collect(_, _)
Collect(ii, stage) ==
    IF ii > Len(stageOf) THEN <<>>
    ELSE (IF stageOf[ii] = stage THEN <<[key |-> m_data[ii].key, idx |-> ii - 1]>> ELSE <<>>)
         \o Collect(ii + 1, stage)

perStageDataset(stage) == Collect(1, stage)

\* The body of the second loop for one stage with a non-empty dataset: the
\* network is re-created when the batch is smaller than configured, then
\* trained.
TrainStage(net, datasetSize) ==
    LET batchSize == Min(m_secondStageParams.batchSize, datasetSize)
        used == IF batchSize < m_secondStageParams.batchSize THEN NewNet(batchSize) ELSE net
    IN  Trained(used)

\* The loop leaving at the first empty dataset (break for continue).
StageAfterLoopBreak(stage) ==
    IF \E earlier \in 0..stage : Len(perStageDataset(earlier)) = 0
    THEN m_secondStageNetworks[stage]
    ELSE TrainStage(m_secondStageNetworks[stage], Len(perStageDataset(stage)))

\* The network of a stage after the second loop: a stage with an empty
\* dataset is passed over (continue), the others are trained.
StageAfterLoop(stage) ==
    LET datasetSize == Len(perStageDataset(stage))
    IN  IF datasetSize = 0 THEN m_secondStageNetworks[stage]
        ELSE TrainStage(m_secondStageNetworks[stage], datasetSize)

\* The second loop of trainSecondStage, then the end of train().
trainSecondStage ==
    /\ phase = "TrainingStage2"
    /\ m_secondStageNetworks' = [stage \in 0..(secondStageSize - 1) |-> StageAfterLoop(stage)]
    /\ m_overflowArray' = <<>>
    /\ m_currentOverflowSize' = 0
    /\ stageOf' = <<>>
    /\ phase' = PhaseAfter(phase)
    /\ UNCHANGED <<m_data, config, m_firstStageNetwork, lastFind, history, routing>>

Next ==
    \/ \E key \in Keys, value \in Vals : insert(key, value)
    \/ \E key \in Keys : find(key)
    \/ train
    \/ trainMerge
    \/ trainFirstStage
    \/ trainRoute
    \/ trainSecondStage

Spec == Init /\ [][Next]_vars

\* Every call runs on the caller's thread, which goes on executing the call
\* it is in: a step of train() that can be taken is taken.
insertBounded(key, value) ==
    /\ NumInserts < MaxFairInserts
    /\ insert(key, value)

FairNext ==
    \/ \E key \in Keys, value \in Vals : insertBounded(key, value)
    \/ \E key \in Keys : find(key)
    \/ train
    \/ trainMerge
    \/ trainFirstStage
    \/ trainRoute
    \/ trainSecondStage

FairSpec ==
    /\ Init
    /\ [][FairNext]_vars
    /\ WF_vars(trainMerge)
    /\ WF_vars(trainFirstStage)
    /\ WF_vars(trainRoute)
    /\ WF_vars(trainSecondStage)

\* The routing computation of trainSecondStage applied on its own to a
\* prediction (in halves) and a bank size.
RoutePredictions == (-12..12) \cup {AboveInt, NotANumber}
RouteSizes == {1, 2, 3}

routeStage ==
    /\ ~routing.done
    /\ \E stage \in StageOfPrediction(routing.prediction, routing.size) :
           routing' = [routing EXCEPT !.stage = stage, !.done = TRUE]
    /\ UNCHANGED <<m_data, m_overflowArray, m_currentOverflowSize, config,
                   m_firstStageNetwork, m_secondStageNetworks, phase, stageOf,
                   lastFind, history>>

InitRoute ==
    /\ Constructed({1}, {1}, {1})
    /\ routing \in [prediction : RoutePredictions, size : RouteSizes, stage : {0}, done : {FALSE}]

SpecRoute == InitRoute /\ [][routeStage]_vars

\* The same index constructed with any configuration the constructor takes.
InitAnyConfig == Constructed(AnyStageSizes, AnyBatchSizes, AnyBatchSizes) /\ routing = NoRouting

SpecAnyConfig == InitAnyConfig /\ [][Next]_vars

\* ================================================================== claims
IsSortedByKey(s) == \A i, j \in 1..Len(s) : i < j => s[i].key <= s[j].key

\* The records the index holds.
Stored == {m_overflowArray[i] : i \in 1..Len(m_overflowArray)}
              \cup {m_data[i] : i \in 1..Len(m_data)}

\* Every record inserted so far is in m_data.
AllMerged == \A k \in Keys : CountKey(m_data, k) = inserted[k]

\* C1: find(k) of a key k that was inserted returns a record whose key is k,
\* while the record is in the overflow array and after a retrain merged it
\* into the data.
C1_RoundTripLookup ==
    (lastFind.called /\ inserted[lastFind.key] > 0) => lastFind.result.key = lastFind.key

\* C2: between operations, the keys of the overflow array and of the data,
\* counted with their multiplicities, are the keys passed to insert so far.
C2_NoDataLoss ==
    phase = "Idle" =>
        \A k \in Keys : CountKey(m_overflowArray, k) + CountKey(m_data, k) = inserted[k]

\* C2's case: after a retrain, a key inserted twice, with records both in
\* the data and in the overflow array.
C2_Witness ==
    /\ phase = "Idle"
    /\ retrained
    /\ m_data # <<>>
    /\ m_overflowArray # <<>>
    /\ \E k \in Keys : inserted[k] >= 2 /\ CountKey(m_data, k) >= 1 /\ CountKey(m_overflowArray, k) >= 1

\* C3: on a fresh index and with no explicit train(), maxOverflowSize + 1
\* inserts end with the overflow array empty and all the records in the data,
\* and no retrain fires on an earlier insert.
C3_ThresholdTrigger ==
    (phase = "Idle" /\ ~explicitTrain) =>
        /\ NumInserts = m_maxOverflowSize + 1 =>
               (m_overflowArray = <<>> /\ Len(m_data) = m_maxOverflowSize + 1)
        /\ NumInserts <= m_maxOverflowSize => ~retrained

\* C4: after an insert, train or find call has returned, the overflow array
\* holds at most maxOverflowSize records.
C4_OverflowBound ==
    phase = "Idle" => Len(m_overflowArray) <= m_maxOverflowSize

\* C5: after every completed train() the data is non-decreasing by key.
C5_Sortedness ==
    (phase = "Idle" /\ retrained) => IsSortedByKey(m_data)

\* C5's case: a completed train() over records of both keys, the greater key
\* merged from the overflow array in front of records of the smaller key.
C5_Witness ==
    /\ phase = "Idle"
    /\ retrained
    /\ Len(m_data) >= 3
    /\ KeysOf(m_data) = Keys
    /\ m_overflowArray = <<>>

\* C6: find(k) of a key that was never inserted returns an outcome that
\* differs from every record the index stores, a record of default key and
\* value included.
C6_NotFoundExplicit ==
    (lastFind.called /\ inserted[lastFind.key] = 0) => lastFind.result \notin Stored

\* C7: the stage computed for every record routed is in
\* 0..secondStageSize - 1, whatever the Stage-1 network predicts.
C7_RoutingBounds ==
    \A ii \in 1..Len(stageOf) : 0 <= stageOf[ii] /\ stageOf[ii] <= secondStageSize - 1

\* C7's case: the routing loop has run over several records and sent
\* records to the first and to the last stage of a bank of more than one.
C7_Witness ==
    /\ phase = "TrainingStage2"
    /\ secondStageSize > 1
    /\ Len(stageOf) >= 2
    /\ \E ii, jj \in 1..Len(stageOf) : stageOf[ii] = 0 /\ stageOf[jj] = secondStageSize - 1

\* C8: a train() that follows a train() with no insert in between (the
\* overflow array is empty when it merges) leaves the data the same sequence
\* of records, and the overflow array empty.
C8_IdempotentRetrain ==
    [][(phase = "Merging" /\ m_overflowArray = <<>>) =>
           (m_data' = m_data /\ m_overflowArray' = <<>>)]_vars

\* The configurations the specification calls misconfigured.
Misconfigured ==
    \/ secondStageSize <= 0
    \/ m_firstStageParams.batchSize <= 0
    \/ m_secondStageParams.batchSize <= 0

\* C9: a misconfigured index is rejected at construction: no insert, train
\* or find runs on it.
C9_MisconfigurationRejected ==
    Misconfigured => (NumInserts = 0 /\ ~retrained /\ ~lastFind.called)

\* C10: a retrain goes Merging, TrainingStage1, Routing, TrainingStage2 and
\* back to Idle, in that order; Stage-1 training and routing see the data
\* merged and sorted; the overflow array is empty when Idle is entered again.
C10_RetrainOrdering ==
    /\ [][phase' # phase =>
             <<phase, phase'>> \in {<<"Idle", "Merging">>,
                                    <<"Merging", "TrainingStage1">>,
                                    <<"TrainingStage1", "Routing">>,
                                    <<"Routing", "TrainingStage2">>,
                                    <<"TrainingStage2", "Idle">>}]_vars
    /\ [](phase \in {"TrainingStage1", "Routing"} => (IsSortedByKey(m_data) /\ AllMerged))
    /\ [][(phase # "Idle" /\ phase' = "Idle") => m_overflowArray' = <<>>]_vars

\* C10's case: a retrain entered from insert has gone through its phases and
\* returned to Idle with both stages trained.
C10_Witness ==
    /\ phase = "Idle"
    /\ retrained
    /\ ~explicitTrain
    /\ Len(m_data) >= 2
    /\ m_firstStageNetwork.trained
    /\ \E stage \in 0..(secondStageSize - 1) : m_secondStageNetworks[stage].trained

\* The stable sort of s by key: records of equal key keep their order.
StableSortByKey(s) ==
    LET n == Len(s)
        q == CHOOSE r \in Permutations(1..n) :
                 \A i, j \in 1..n : i < j =>
                     \/ s[r[i]].key < s[r[j]].key
                     \/ (s[r[i]].key = s[r[j]].key /\ r[i] < r[j])
    IN  [i \in 1..n |-> s[q[i]]]

\* C11: after the merge of train(), records of equal key are in the order
\* they had before the sort: the records of the data first, in their order,
\* then the records of the overflow array in insertion order.
C11_StableMerge ==
    [][phase = "Merging" => m_data' = StableSortByKey(m_data \o m_overflowArray)]_vars

\* C12: when the overflow array holds several records with key k, find(k)
\* returns the one inserted first since the last retrain.
C12_FirstMatchScan ==
    (lastFind.called /\ lastFind.key \in KeysOf(m_overflowArray)) =>
        \E i \in 1..Len(m_overflowArray) :
            /\ lastFind.result = m_overflowArray[i]
            /\ m_overflowArray[i].key = lastFind.key
            /\ \A j \in 1..(i - 1) : m_overflowArray[j].key # lastFind.key

\* C12's case: find(k) has returned while the overflow array holds two
\* records with key k and different values.
C12_Witness ==
    /\ lastFind.called
    /\ \E i, j \in 1..Len(m_overflowArray) :
           /\ i < j
           /\ m_overflowArray[i].key = lastFind.key
           /\ m_overflowArray[j].key = lastFind.key
           /\ m_overflowArray[i].val # m_overflowArray[j].val
           /\ lastFind.result = m_overflowArray[i]

\* The bucket the routing policy names for a prediction in halves:
\* clamp(floor(p / N), 0, N - 1).
PolicyStage(halves, size) ==
    IF halves = AboveInt THEN size - 1
    ELSE Min(size - 1, Max(0, halves \div (2 * size)))

\* C13: for every predicted position p and bank size N >= 1 the bucket the
\* code computes (truncate, divide, cap) is clamp(floor(p / N), 0, N - 1).
C13_RoutingFormula ==
    (routing.done /\ routing.prediction # NotANumber) =>
        routing.stage = PolicyStage(routing.prediction, routing.size)

Stages == 0..(secondStageSize - 1)

\* C14: in the training loop a stage whose dataset is empty keeps its network
\* as it was, every stage whose dataset is not empty is trained, also after
\* an empty one.
C14_EmptyBucketSkipped ==
    [][phase = "TrainingStage2" =>
           \A stage \in Stages :
               IF Len(perStageDataset(stage)) = 0
               THEN m_secondStageNetworks'[stage] = m_secondStageNetworks[stage]
               ELSE m_secondStageNetworks'[stage].trained]_vars

\* C14's case: a train() has completed in which the first stage got no
\* record and was left untrained and a later stage was trained.
C14_Witness ==
    /\ phase = "Idle"
    /\ retrained
    /\ secondStageSize > 1
    /\ m_secondStageNetworks[0] = NewNet(m_secondStageParams.batchSize)
    /\ m_secondStageNetworks[secondStageSize - 1].trained

\* C15: in every train() each stage with a non-empty dataset ends with a
\* network whose batch dimension is min(configured batch size, dataset size).
C15_BatchSizeMatch ==
    [][phase = "TrainingStage2" =>
           \A stage \in Stages :
               Len(perStageDataset(stage)) > 0 =>
                   m_secondStageNetworks'[stage].batch =
                       Min(m_secondStageParams.batchSize, Len(perStageDataset(stage)))]_vars

\* C16: in every train() each stage with a non-empty dataset is trained from
\* a fresh network: nothing of an earlier train() is carried into it.
C16_RetrainFromScratch ==
    [][phase = "TrainingStage2" =>
           \A stage \in Stages :
               Len(perStageDataset(stage)) > 0 => ~m_secondStageNetworks'[stage].carried]_vars

models == <<m_firstStageNetwork, m_secondStageNetworks>>

\* C17: between operations, from construction on, m_currentOverflowSize is
\* the number of records in m_overflowArray.
C17_CounterConsistency ==
    phase = "Idle" => m_currentOverflowSize = Len(m_overflowArray)

\* C18: a find call, whether it finds the key or not, leaves the overflow
\* array, the counter, the data and the models as they were and starts no
\* retrain.
C18_FindReadOnly ==
    [][lastFind'.called =>
           /\ UNCHANGED <<m_overflowArray, m_currentOverflowSize, m_data, models>>
           /\ phase' = "Idle"]_vars

\* C18's case: find calls have returned on an index with records in the data
\* and in the overflow array, this one with a record of the overflow array.
C18_Witness ==
    /\ lastFind.called
    /\ m_data # <<>>
    /\ m_overflowArray # <<>>
    /\ lastFind.key \in KeysOf(m_overflowArray)
    /\ lastFind.result.key = lastFind.key

\* C19: an insert after which the overflow array holds at most
\* maxOverflowSize records appends the record at the end of the overflow
\* array, leaves the data and the models as they were and starts no retrain;
\* the data changes only inside train().
C19_InsertBelowThreshold ==
    [][/\ (inserted' # inserted /\ Len(m_overflowArray') <= m_maxOverflowSize) =>
              /\ \E key \in Keys, value \in Vals :
                     m_overflowArray' = Append(m_overflowArray, Pair(key, value))
              /\ UNCHANGED <<m_data, models>>
              /\ phase' = "Idle"
       /\ m_data' # m_data => phase = "Merging"]_vars

\* C20: every call returns (the index is Idle again); train() is entered
\* only from Idle, so an insert starts at most one retrain and a retrain
\* starts none.
C20_RunToCompletion ==
    /\ (phase # "Idle") ~> (phase = "Idle")
    /\ [][phase' = "Merging" => phase = "Idle"]_vars

\* C20's case: an insert that started a retrain has returned, and a find
\* call after it.
C20_Witness ==
    /\ phase = "Idle"
    /\ retrained
    /\ ~explicitTrain
    /\ lastFind.called
    /\ m_data # <<>>
====
